---- MODULE Spec2Model ----
(***************************************************************************)
(* Model of src/ai_generator.py (TrendSage): the module-level credential   *)
(* and client handle, generate_content_ideas with its single try/except,   *)
(* and the fallback template bank generate_mock_content_ideas.             *)
(*                                                                         *)
(* Python values are tagged records ([type |-> "list", items |-> ...]),    *)
(* strings are TLA+ strings, f-strings are concatenations (\o).  The       *)
(* outcome of a Python call is Return(v) or Raise(excName).                *)
(***************************************************************************)
EXTENDS Integers, Sequences, FiniteSets, TLC

VARIABLES
    environ,          \* current value of os.environ["OPENAI_API_KEY"]
    OPENAI_API_KEY,   \* module global, assigned once at import (line 10)
    openai,           \* module global client handle or None (lines 11-15)
    requests,         \* number of openai.chat.completions.create calls made
    call,             \* the last invocation of a public function
    result,           \* what that invocation gave back to its caller
    remembered        \* history: some earlier fallback computation

vars == <<environ, OPENAI_API_KEY, openai, requests, call, result, remembered>>

----------------------------------------------------------------------------
(* Bounds *)

MaxRequests == 2

----------------------------------------------------------------------------
(* Python values and call outcomes *)

PyNone == [type |-> "NoneType"]
PyStr(s) == [type |-> "str", str |-> s]
PyInt(n) == [type |-> "int", int |-> n]
PyList(items) == [type |-> "list", items |-> items]
PyDict(fields) == [type |-> "dict", fields |-> fields]

Return(v) == [kind |-> "return", value |-> v]
Raise(e) == [kind |-> "raise", exc |-> e]

\* Python truthiness of an optional string: None and "" are falsy.
Truthy(v) == v.type = "str" /\ v.str # ""

\* d.get(k, default) on a mapping held as a TLA+ function.
DictGet(d, k, default) == IF k \in DOMAIN d THEN d[k] ELSE default

\* Python's  t in s  for strings.
Contains(s, t) == \E i \in 0..(Len(s) - Len(t)) : SubSeq(s, i + 1, i + Len(t)) = t

----------------------------------------------------------------------------
(* Inputs *)

LongTopic == "sustainable urban gardening tips"

Topics == {"drones", LongTopic}

CATEGORIES == {"all", "humor", "tech", "finance", "fitness", "education", "lifestyle"}

\* The closed set plus one string outside it.
CategoryInputs == CATEGORIES \cup {"sports"}

EnvValues == {PyNone, PyStr(""), PyStr("sk-live")}

----------------------------------------------------------------------------
(* Fallback template bank *)

\* Insertion order of the templates dict literal.
TemplateKeys == <<"humor", "tech", "finance", "fitness", "education", "lifestyle">>

Idea(t, d, ct, v, ta, c) ==
    [title |-> t, description |-> d, content_type |-> ct, virality |-> v,
     target_audience |-> ta, category |-> c]

templates(topic) ==
    [humor |-> <<
        Idea("When " \o topic \o " Goes Hilariously Wrong",
             "A compilation of funny " \o topic \o " fails that everyone can relate to.",
             "video", "high", "General audience with interest in comedy", "humor"),
        Idea(topic \o " Expectations vs. Reality",
             "Contrasting what people expect from " \o topic \o " with the often-amusing reality.",
             "reel", "high", "Young adults and teens", "humor") >>,
     tech |-> <<
        Idea("5 " \o topic \o " Hacks You Never Knew Existed",
             "Quick technical tips to master " \o topic \o " that most people don't know about.",
             "tutorial", "medium", "Tech enthusiasts and early adopters", "tech"),
        Idea("The Future of " \o topic \o ": 2025 Predictions",
             "Analysis of upcoming trends and technologies related to " \o topic \o ".",
             "post", "medium", "Industry professionals and tech followers", "tech") >>,
     finance |-> <<
        Idea("How " \o topic \o " Can Save You $1000 This Month",
             "Practical financial strategies using " \o topic \o " for immediate savings.",
             "video", "medium", "Budget-conscious adults", "finance"),
        Idea("Investing in " \o topic \o ": Beginner's Guide",
             "Step-by-step approach to understanding investment opportunities in " \o topic \o ".",
             "series", "low", "New investors", "finance") >>,
     fitness |-> <<
        Idea("10-Minute " \o topic \o " Workout for Busy People",
             "Quick and effective workout routine incorporating " \o topic \o " principles.",
             "reel", "high", "Busy professionals interested in fitness", "fitness"),
        Idea(topic \o " Transformation Challenge",
             "30-day fitness journey using " \o topic \o " methods with visible results.",
             "series", "medium", "Fitness enthusiasts looking for challenges", "fitness") >>,
     education |-> <<
        Idea(topic \o " Explained in 60 Seconds",
             "Quick, easy-to-understand explanation of " \o topic \o " for beginners.",
             "reel", "medium", "Students and lifelong learners", "education"),
        Idea("What Schools Don't Teach About " \o topic,
             "Lesser-known but important facts about " \o topic \o " that aren't in textbooks.",
             "video", "medium", "Curious minds and alternative education followers", "education") >>,
     lifestyle |-> <<
        Idea("Day in the Life: " \o topic \o " Edition",
             "Follow-along vlog showing how " \o topic \o " integrates into daily routines.",
             "vlog", "medium", "Lifestyle content followers", "lifestyle"),
        Idea(topic \o " Room Makeover",
             "Transforming a space with " \o topic \o "-inspired aesthetics and functionality.",
             "video", "medium", "Home decor and design enthusiasts", "lifestyle") >>]

\* The loop of lines 176-181: append the first idea of each category in
\* dict order, break as soon as five have been collected.
RECURSIVE mixed_ideas(_, _, _)
mixed_ideas(tpl, i, acc) ==
    IF i > Len(TemplateKeys) THEN acc
    ELSE LET appended == Append(acc, tpl[TemplateKeys[i]][1])
         IN  IF Len(appended) >= 5 THEN appended
             ELSE mixed_ideas(tpl, i + 1, appended)

\* Variant: the category lookup always reads the 'humor' entry.
select_ideas_humor_only(tpl, category) ==
    IF category # "all"
    THEN tpl["humor"]
    ELSE mixed_ideas(tpl, 1, <<>>)

\* Variant: the loop over the categories has no break.
select_ideas_uncapped(tpl, category) ==
    IF category # "all"
    THEN DictGet(tpl, category, tpl["humor"])
    ELSE [i \in 1..Len(TemplateKeys) |-> tpl[TemplateKeys[i]][1]]

\* Variant: an unknown category yields an empty list instead of 'humor'.
select_ideas_empty_default(tpl, category) ==
    IF category # "all"
    THEN DictGet(tpl, category, <<>>)
    ELSE mixed_ideas(tpl, 1, <<>>)

\* Lines 171-181: the selection made on the template table.
select_ideas(tpl, category) ==
    IF category # "all"
    THEN DictGet(tpl, category, tpl["humor"])
    ELSE mixed_ideas(tpl, 1, <<>>)

\* Variant: the template strings are not f-strings.
generate_mock_unformatted(topic, category) ==
    Return(PyList(select_ideas(templates("{topic}"), category)))

\* Variant: the fallback consults the environment at call time.
generate_mock_reads_environ(topic, category) ==
    IF Truthy(environ)
    THEN Return(PyList(select_ideas(templates(topic), category)))
    ELSE Return(PyList(<<>>))

generate_mock_content_ideas(topic, category) ==
    Return(PyList(select_ideas(templates(topic), category)))

----------------------------------------------------------------------------
(* Module import, lines 9-15 *)

Client == [type |-> "OpenAI"]

\* OpenAI(api_key=key) inside try/except: the handle, or None when the
\* constructor raised.  Without any key the constructor always raises.
client_init(key) == IF key = PyNone THEN {PyNone} ELSE {Client, PyNone}

\* Variant: the credential is looked up again on every call.
service_disabled_rechecks == ~Truthy(environ) \/ openai = PyNone

\* Line 31:  not OPENAI_API_KEY or openai is None
service_disabled == ~Truthy(OPENAI_API_KEY) \/ openai = PyNone

----------------------------------------------------------------------------
(* The service's answers and json.loads *)

GoodIdea ==
    Idea("Drone Racing for Beginners", "Learn the basics of FPV racing.",
         "video", "high", "Hobbyists", "tech")

\* An idea object the service may send that breaks the stated data model.
BadIdea ==
    Idea("The Ultimate Complete Step-by-Step Guide to Everything About Drones",
         "Everything.", "podcast", "viral", "Everyone", "all")

Quote(s) == "\"" \o s \o "\""

IdeaJson(idea) ==
    "{" \o Quote("title") \o ": " \o Quote(idea.title) \o ", "
        \o Quote("description") \o ": " \o Quote(idea.description) \o ", "
        \o Quote("content_type") \o ": " \o Quote(idea.content_type) \o ", "
        \o Quote("virality") \o ": " \o Quote(idea.virality) \o ", "
        \o Quote("target_audience") \o ": " \o Quote(idea.target_audience) \o ", "
        \o Quote("category") \o ": " \o Quote(idea.category) \o "}"

\* JSON documents and the values json.loads decodes them to.
JsonDocs ==
    { <<"null", PyNone>>,
      <<"42", PyInt(42)>>,
      <<"{\"error\": \"rate limited\"}", PyDict([error |-> PyStr("rate limited")])>>,
      <<"{\"ideas\": null}", PyDict([ideas |-> PyNone])>>,
      <<"{\"ideas\": \"none\"}", PyDict([ideas |-> PyStr("none")])>>,
      <<"{\"ideas\": [" \o IdeaJson(GoodIdea) \o "]}",
        PyDict([ideas |-> PyList(<<GoodIdea>>)])>>,
      <<"[" \o IdeaJson(GoodIdea) \o "]", PyList(<<GoodIdea>>)>>,
      <<"[" \o IdeaJson(GoodIdea) \o ", " \o IdeaJson(BadIdea) \o "]",
        PyList(<<GoodIdea, BadIdea>>)>> }

\* Texts that are not JSON documents.
Undecodable == {"", "Here are your ideas: ["}

Contents == {d[1] : d \in JsonDocs} \cup Undecodable

\* json.loads(content): TypeError for a non-string, JSONDecodeError for a
\* text that is no JSON document, the decoded value otherwise.
json_loads(content) ==
    IF content.type # "str" THEN Raise("TypeError")
    ELSE IF \E d \in JsonDocs : d[1] = content.str
         THEN Return((CHOOSE d \in JsonDocs : d[1] = content.str)[2])
         ELSE Raise("JSONDecodeError")

Response(choices) == [choices |-> choices]
Choice(content) == [message |-> [content |-> content]]

\* What openai.chat.completions.create can do: raise, or return a response.
ApiOutcomes ==
    {Raise("APIConnectionError"),
     Return(Response(<<>>)),
     Return(Response(<<Choice(PyNone)>>))}
    \cup {Return(Response(<<Choice(PyStr(t))>>)) : t \in Contents}

NoApi == [kind |-> "none"]

----------------------------------------------------------------------------
(* generate_content_ideas, lines 28-89 *)

\* Lines 78-85: dispatch on the decoded payload.
handle_format(ideas, topic, category) ==
    IF ideas.type = "dict" /\ "ideas" \in DOMAIN ideas.fields
    THEN Return(ideas.fields["ideas"])
    ELSE IF ideas.type = "list"
         THEN Return(ideas)
         ELSE generate_mock_content_ideas(topic, category)

\* Lines 31-85: the body of the try block.
try_body(topic, category, api) ==
    IF service_disabled
    THEN generate_mock_content_ideas(topic, category)
    ELSE IF api.kind = "raise" THEN api
    ELSE IF Len(api.value.choices) = 0 THEN Raise("IndexError")
    ELSE LET content == api.value.choices[1].message.content
             ideas == json_loads(content)
         IN  IF ideas.kind = "raise" THEN ideas
             ELSE handle_format(ideas.value, topic, category)

\* Exception classes that derive from Exception.
ExceptionClasses ==
    {"APIConnectionError", "IndexError", "TypeError", "JSONDecodeError", "KeyError"}

\* Variant: the handler is  except json.JSONDecodeError.
catches_decode_errors_only(exc) == exc = "JSONDecodeError"

\* Line 87:  except Exception
catches(exc) == exc \in ExceptionClasses

generate_content_ideas(topic, category, api) ==
    LET body == try_body(topic, category, api)
    IN  IF body.kind = "raise" /\ catches(body.exc)
        THEN generate_mock_content_ideas(topic, category)
        ELSE body

\* Variant: a raising call is tried once more before falling back.
outbound_requests_retry(topic, category, api) ==
    IF service_disabled THEN 0
    ELSE IF api.kind = "raise" THEN 2 ELSE 1

\* How many times line 63 runs in one invocation.
outbound_requests(topic, category, api) == IF service_disabled THEN 0 ELSE 1

----------------------------------------------------------------------------
(* State machine *)

NoCall == [fn |-> "none"]

Init ==
    /\ environ \in EnvValues
    /\ OPENAI_API_KEY = environ
    /\ openai \in client_init(OPENAI_API_KEY)
    /\ requests = 0
    /\ call = NoCall
    /\ result = NoCall
    /\ remembered = NoCall

\* A caller invokes generate_content_ideas(topic, category); the service,
\* when it is asked, answers with one of apis.
Generate(apis) ==
    \E topic \in Topics, category \in CategoryInputs :
      \E api \in (IF service_disabled THEN {NoApi} ELSE apis) :
        LET n == outbound_requests(topic, category, api) IN
        /\ requests < MaxRequests
        /\ requests' = requests + n
        /\ call' = [fn |-> "generate_content_ideas", topic |-> topic,
                    category |-> category, api |-> api, issued |-> n]
        /\ result' = generate_content_ideas(topic, category, api)
        /\ UNCHANGED <<environ, OPENAI_API_KEY, openai, remembered>>

\* A caller invokes generate_mock_content_ideas(topic, category) directly.
\* With keep, remembered records the computation for later comparison.
Mock(keeps) ==
    \E topic \in Topics, category \in CategoryInputs, keep \in keeps :
        /\ call' = [fn |-> "generate_mock_content_ideas", topic |-> topic,
                    category |-> category, api |-> NoApi, issued |-> 0]
        /\ result' = generate_mock_content_ideas(topic, category)
        /\ remembered' = IF keep
                         THEN [topic |-> topic, category |-> category,
                               result |-> result', requests |-> requests]
                         ELSE remembered
        /\ UNCHANGED <<environ, OPENAI_API_KEY, openai, requests>>

GenerateContentIdeas == Generate(ApiOutcomes)

GenerateMockContentIdeas == Mock({FALSE})

\* The process environment changes after import.
SetEnviron ==
    \E v \in EnvValues :
        /\ v # environ
        /\ environ' = v
        /\ UNCHANGED <<OPENAI_API_KEY, openai, requests, call, result, remembered>>

Next == GenerateContentIdeas \/ GenerateMockContentIdeas \/ SetEnviron

Spec == Init /\ [][Next]_vars

\* The same program observed with a memory of earlier fallback results; the
\* service either fails or answers with a well-formed list.
HistoryApiOutcomes ==
    {Raise("APIConnectionError"),
     Return(Response(<<Choice(PyStr("[" \o IdeaJson(GoodIdea) \o "]"))>>))}

GenerateWithHistory == Generate(HistoryApiOutcomes)

GenerateMockWithHistory == Mock(BOOLEAN)

HistoryNext == GenerateWithHistory \/ GenerateMockWithHistory \/ SetEnviron

HistorySpec == Init /\ [][HistoryNext]_vars

----------------------------------------------------------------------------
(* Properties *)

IsGenerate == call.fn = "generate_content_ideas"
IsMock == call.fn = "generate_mock_content_ideas"

\* The credential and the handle as line 31 sees them, spelled out.
StartedDisabled ==
    \/ OPENAI_API_KEY = PyNone
    \/ OPENAI_API_KEY = PyStr("")
    \/ openai = PyNone

\* The text the service answered with, when it answered with a text.
HasContent ==
    /\ IsGenerate
    /\ ~StartedDisabled
    /\ call.api.kind = "return"
    /\ Len(call.api.value.choices) > 0
    /\ call.api.value.choices[1].message.content.type = "str"

ContentText == call.api.value.choices[1].message.content.str

\* The live attempt of the last generate_content_ideas call failed in one
\* of the ways C1 lists.
LiveAttemptFailed ==
    /\ IsGenerate
    /\ \/ StartedDisabled
       \/ call.api.kind = "raise"
       \/ /\ call.api.kind = "return"
          /\ \/ Len(call.api.value.choices) = 0
             \/ call.api.value.choices[1].message.content = PyNone
             \/ /\ call.api.value.choices[1].message.content.type = "str"
                /\ ContentText \in Undecodable

ReturnedIdeas == result.value.items

\* C1: generate_content_ideas never raises to its caller, and whenever the
\* live attempt fails (no credential, no client, the call raises, no
\* choices, no content, undecodable content) it returns exactly
\* generate_mock_content_ideas(topic, category).
C1_FailuresFallBack ==
    IsGenerate /\ call.category \in CATEGORIES =>
        /\ result.kind = "return"
        /\ LiveAttemptFailed =>
               result = generate_mock_content_ideas(call.topic, call.category)

C1_Witness ==
    /\ IsGenerate
    /\ ~StartedDisabled
    /\ call.api = Raise("APIConnectionError")
    /\ call.category = "finance"
    /\ result.kind = "return"
    /\ Len(ReturnedIdeas) = 2

\* C2: a decoded list is returned, a wrapper object whose 'ideas' field is
\* a list has that list returned, and every other decoded shape gives the
\* fallback generate_mock_content_ideas(topic, category).
C2_ExactlyTwoShapes ==
    HasContent /\ (\E d \in JsonDocs : d[1] = ContentText) =>
        LET decoded == (CHOOSE d \in JsonDocs : d[1] = ContentText)[2] IN
        IF decoded.type = "list"
        THEN result = Return(decoded)
        ELSE IF /\ decoded.type = "dict"
                /\ "ideas" \in DOMAIN decoded.fields
                /\ decoded.fields["ideas"].type = "list"
             THEN result = Return(decoded.fields["ideas"])
             ELSE result = generate_mock_content_ideas(call.topic, call.category)

\* C3: for a specific category the fallback returns that category's two
\* template ideas in template order, each carrying the requested category;
\* ('drones', 'tech') starts with '5 drones Hacks You Never Knew Existed'.
C3_SpecificCategory ==
    IsMock /\ call.category \in CATEGORIES \ {"all"} =>
        /\ result.kind = "return"
        /\ result.value.type = "list"
        /\ Len(ReturnedIdeas) = 2
        /\ ReturnedIdeas = templates(call.topic)[call.category]
        /\ \A i \in 1..Len(ReturnedIdeas) : ReturnedIdeas[i].category = call.category
        /\ (call.topic = "drones" /\ call.category = "tech" =>
                ReturnedIdeas[1].title = "5 drones Hacks You Never Knew Existed")

C3_Witness ==
    /\ IsMock
    /\ call.topic = "drones"
    /\ call.category = "tech"
    /\ Len(ReturnedIdeas) = 2
    /\ ReturnedIdeas[2].title = "The Future of drones: 2025 Predictions"

\* C4: for 'all' the fallback returns five ideas, the first template idea
\* of humor, tech, finance, fitness, education in that order; the five
\* categories are pairwise distinct and none is 'all'.
C4_AllReturnsFive ==
    IsMock /\ call.category = "all" =>
        LET order == <<"humor", "tech", "finance", "fitness", "education">> IN
        /\ result.kind = "return"
        /\ Len(ReturnedIdeas) = 5
        /\ \A i \in 1..5 :
              /\ ReturnedIdeas[i] = templates(call.topic)[order[i]][1]
              /\ ReturnedIdeas[i].category = order[i]
              /\ ReturnedIdeas[i].category # "all"
        /\ \A i, j \in 1..Len(ReturnedIdeas) :
              i # j => ReturnedIdeas[i].category # ReturnedIdeas[j].category

C4_Witness ==
    /\ IsMock
    /\ call.category = "all"
    /\ call.topic = "drones"
    /\ Len(ReturnedIdeas) = 5
    /\ ReturnedIdeas[5].title = "drones Explained in 60 Seconds"

\* C5: the topic is a substring of the title and of the description of
\* every idea the fallback returns, for every category of the closed set.
C5_TopicInEveryIdea ==
    IsMock /\ call.category \in CATEGORIES =>
        \A i \in 1..Len(ReturnedIdeas) :
            /\ Contains(ReturnedIdeas[i].title, call.topic)
            /\ Contains(ReturnedIdeas[i].description, call.topic)

C5_Witness ==
    /\ IsMock
    /\ call.category = "lifestyle"
    /\ call.topic = LongTopic
    /\ Len(ReturnedIdeas) = 2
    /\ Contains(ReturnedIdeas[2].description, "gardening tips-inspired")

ContentTypes == {"video", "reel", "story", "post", "tutorial", "series", "vlog"}
Viralities == {"low", "medium", "high"}

\* C6: every idea generate_content_ideas returns, live or fallback, has a
\* title of at most 60 characters, a content_type of the listed seven, a
\* virality of low/medium/high and one of the six content categories.
C6_DataModel ==
    /\ IsGenerate
    /\ call.category \in CATEGORIES
    /\ result.kind = "return"
    /\ result.value.type = "list"
    => \A i \in 1..Len(ReturnedIdeas) :
           /\ Len(ReturnedIdeas[i].title) <= 60
           /\ ReturnedIdeas[i].content_type \in ContentTypes
           /\ ReturnedIdeas[i].virality \in Viralities
           /\ ReturnedIdeas[i].category \in CATEGORIES \ {"all"}

\* C7: when the credential read at import is missing or empty, or the
\* client failed to initialise, no outbound request is ever issued and
\* every generate_content_ideas call returns the fallback; the credential
\* and the handle are never assigned again.
C7_DisabledForever ==
    [][/\ OPENAI_API_KEY' = OPENAI_API_KEY
       /\ openai' = openai
       /\ StartedDisabled =>
             /\ requests' = 0
             /\ IsGenerate' =>
                   /\ call'.issued = 0
                   /\ result' = generate_mock_content_ideas(call'.topic, call'.category)
      ]_vars

C7_Witness ==
    /\ OPENAI_API_KEY = PyStr("")
    /\ openai = Client
    /\ environ = PyStr("sk-live")
    /\ IsGenerate
    /\ requests = 0

C10_UnknownCategoryGetsHumor ==
    IsMock /\ call.category \notin CATEGORIES =>
        /\ result.kind = "return"
        /\ Len(ReturnedIdeas) = 2
        /\ ReturnedIdeas = templates(call.topic)["humor"]
        /\ \A i \in 1..Len(ReturnedIdeas) :
              /\ ReturnedIdeas[i].category = "humor"
              /\ ReturnedIdeas[i].category # call.category

C10_Witness ==
    /\ IsMock
    /\ call.category = "sports"
    /\ Len(ReturnedIdeas) = 2
    /\ ReturnedIdeas[1].title = "When drones Goes Hilariously Wrong"

====
